---- MODULE Spec2Model ----
(***************************************************************************)
(* MyStation 2.0: the size formatter, the disk-usage history file (written *)
(* by save_history, parsed by plot_usage) and the menu controller (main,   *)
(* windows_optimization, the monitors and run_all_optimizations).          *)
(*                                                                         *)
(* Text is modelled by TLA+ strings, used as sequences of characters       *)
(* (Len, SubSeq, \o).  A byte count is a record [hi, lo] standing for      *)
(* hi * 1024^3 + lo with 0 <= lo < 1024^3: Python integers are unbounded,  *)
(* TLC's are 32 bits wide, and the split keeps every comparison            *)
(* and every division of format_size exact.                                *)
(***************************************************************************)
EXTENDS Integers, Sequences, FiniteSets, TLC

VARIABLES
    osName,          \* os.name: "nt" or "posix"
    psutil,          \* TRUE iff "import psutil" succeeded
    HAS_MATPLOTLIB,  \* TRUE iff "import matplotlib.pyplot" succeeded
    winshell,        \* TRUE iff "import winshell" succeeded
    historyInTemp,   \* the working directory (which holds the history file) lies inside the temp directory
    pc,              \* where the controller is
    event,           \* the last input: [kind, choice]
    msg,             \* the last notice printed by the controller
    ran,             \* the actions invoked by the last dispatched selection, in call order
    history,         \* the lines of disk_usage_history.txt, each with its line terminator
    historyExists,   \* TRUE iff disk_usage_history.txt exists
    written,         \* the snapshots appended so far, one per data line, in file order
    nrec,            \* number of record blocks appended so far
    queried,         \* the drives check_disk was called on by the last "check disks"
    enumerated,      \* the drives get_disks returned to the last "check disks"
    lineNo,          \* plot_usage: index of the next line of the file to process
    disks,           \* plot_usage: volume labels parsed so far
    used_sizes,      \* plot_usage: used values parsed so far (hundredths of a GB)
    free_sizes,      \* plot_usage: free values parsed so far (hundredths of a GB)
    failedOps,       \* the sub-actions of the last "run all" whose OS operation failed
    reports,         \* the status each sub-action of the last "run all" printed
    samples,         \* samples displayed by the running monitor
    fmtIn,           \* the argument of the last format_size call under FormatSpec
    fmtOut           \* its result

envVars  == <<osName, psutil, HAS_MATPLOTLIB, winshell, historyInTemp>>
fileVars == <<history, historyExists, written, nrec>>
plotVars == <<lineNo, disks, used_sizes, free_sizes>>
optVars  == <<failedOps, reports>>
fmtVars  == <<fmtIn, fmtOut>>
vars == <<osName, psutil, HAS_MATPLOTLIB, winshell, historyInTemp, pc, event, msg, ran,
          history, historyExists, written, nrec, queried, enumerated,
          lineNo, disks, used_sizes, free_sizes, failedOps, reports, samples,
          fmtIn, fmtOut>>

\* ------------------------------------------------------------------------
\* Bounds
\* ------------------------------------------------------------------------
MaxRecords == 2     \* "check disks" actions per run
MaxSamples == 2     \* samples a monitor displays before the model stops counting

\* ------------------------------------------------------------------------
\* Text helpers (Python str methods)
\* ------------------------------------------------------------------------
CharAt(s, i) == SubSeq(s, i, i)

\* s.find(pat, from): the least index >= from at which pat occurs in s, 0 if none
RECURSIVE Find(_, _, _)
Find(s, pat, from) ==
    IF from + Len(pat) - 1 > Len(s) THEN 0
    ELSE IF SubSeq(s, from, from + Len(pat) - 1) = pat THEN from
    ELSE Find(s, pat, from + 1)

\* pat in s
Contains(s, pat) == Find(s, pat, 1) # 0

Whitespace == {" ", "\n", "\t", "\r"}

RECURSIVE LStrip(_)
LStrip(s) == IF Len(s) > 0 /\ CharAt(s, 1) \in Whitespace THEN LStrip(Tail(s)) ELSE s

RECURSIVE RStrip(_)
RStrip(s) ==
    IF Len(s) > 0 /\ CharAt(s, Len(s)) \in Whitespace
    THEN RStrip(SubSeq(s, 1, Len(s) - 1)) ELSE s

\* s.strip()
Strip(s) == LStrip(RStrip(s))

\* s.split(sep): always at least one part
RECURSIVE Split(_, _)
Split(s, sep) ==
    LET i == Find(s, sep, 1)
    IN  IF i = 0 THEN <<s>>
        ELSE <<SubSeq(s, 1, i - 1)>> \o Split(SubSeq(s, i + Len(sep), Len(s)), sep)

\* s.replace(old, new): every occurrence, left to right
RECURSIVE Replace(_, _, _)
Replace(s, old, new) ==
    LET i == Find(s, old, 1)
    IN  IF i = 0 THEN s
        ELSE SubSeq(s, 1, i - 1) \o new \o Replace(SubSeq(s, i + Len(old), Len(s)), old, new)

\* the lines of a text, each keeping its "\n" (how a text file is iterated)
RECURSIVE SplitLines(_)
SplitLines(text) ==
    LET i == Find(text, "\n", 1)
    IN  IF Len(text) = 0 THEN <<>>
        ELSE IF i = 0 THEN <<text>>
        ELSE <<SubSeq(text, 1, i)>> \o SplitLines(SubSeq(text, i + 1, Len(text)))

\* c * n
RECURSIVE Repeat(_, _)
Repeat(c, n) == IF n = 0 THEN "" ELSE c \o Repeat(c, n - 1)

Digits == <<"0", "1", "2", "3", "4", "5", "6", "7", "8", "9">>

IsDigit(c) == \E d \in 1..10 : Digits[d] = c

DigitVal(c) == (CHOOSE d \in 1..10 : Digits[d] = c) - 1

\* the decimal digits of a natural number
RECURSIVE IntToStr(_)
IntToStr(n) == IF n < 10 THEN Digits[n + 1] ELSE IntToStr(n \div 10) \o Digits[(n % 10) + 1]

\* the value of a string of decimal digits
RECURSIVE StrToInt(_)
StrToInt(s) ==
    IF Len(s) = 0 THEN 0
    ELSE StrToInt(SubSeq(s, 1, Len(s) - 1)) * 10 + DigitVal(CharAt(s, Len(s)))

AllDigits(s) == \A i \in 1..Len(s) : IsDigit(CharAt(s, i))

\* ------------------------------------------------------------------------
\* Byte counts
\* ------------------------------------------------------------------------
KiB == 1024
MiB == 1024 * 1024
GiB == 1024 * 1024 * 1024

Bytes(hi, lo) == [hi |-> hi, lo |-> lo]

\* b >= n, for 0 <= n <= GiB
AtLeast(b, n) == IF n = GiB THEN b.hi >= 1 ELSE b.hi >= 1 \/ b.lo >= n

\* b < n, for 0 <= n <= GiB
Below(b, n) == ~AtLeast(b, n)

\* round-half-even(r * 100 / shift), for 0 <= r < GiB and shift in {KiB, MiB, GiB}:
\* the ".2f" rendering of the exactly representable quotient r / shift
RoundedHundredths(r, shift) ==
    LET h    == r \div 1024
        l    == r % 1024
        t    == h * 100 + (l * 100) \div 1024
        rem1 == (l * 100) % 1024
        d    == shift \div 1024
        q    == t \div d
        rem  == (t % d) * 1024 + rem1
        half == shift \div 2
    IN  IF rem > half \/ (rem = half /\ q % 2 = 1) THEN q + 1 ELSE q

\* f"{size:.2f}" of a value given in hundredths
Fixed2(h) ==
    IntToStr(h \div 100) \o "." \o Digits[((h % 100) \div 10) + 1] \o Digits[(h % 10) + 1]

format_size_gt(bytes_value) ==
    IF bytes_value.hi > 1 \/ (bytes_value.hi = 1 /\ bytes_value.lo > 0)
    THEN Fixed2(bytes_value.hi * 100 + RoundedHundredths(bytes_value.lo, GiB)) \o " " \o "GB"
    ELSE IF bytes_value.hi = 1 \/ bytes_value.lo > MiB
    THEN Fixed2(bytes_value.hi * 102400 + RoundedHundredths(bytes_value.lo, MiB)) \o " " \o "MB"
    ELSE IF bytes_value.lo > KiB
    THEN Fixed2(RoundedHundredths(bytes_value.lo, KiB)) \o " " \o "KB"
    ELSE Fixed2(bytes_value.lo * 100) \o " " \o "Bytes"

format_size(bytes_value) ==
    IF AtLeast(bytes_value, GiB)
    THEN Fixed2(bytes_value.hi * 100 + RoundedHundredths(bytes_value.lo, GiB)) \o " " \o "GB"
    ELSE IF AtLeast(bytes_value, MiB)
    THEN Fixed2(RoundedHundredths(bytes_value.lo, MiB)) \o " " \o "MB"
    ELSE IF AtLeast(bytes_value, KiB)
    THEN Fixed2(RoundedHundredths(bytes_value.lo, KiB)) \o " " \o "KB"
    ELSE Fixed2(bytes_value.lo * 100) \o " " \o "Bytes"

\* ------------------------------------------------------------------------
\* The history file
\* ------------------------------------------------------------------------
\* Colors.MAGENTA: the escape character is written here as the three characters "\03"
MAGENTA == "\\033[95m"

\* string.ascii_uppercase, restricted to the drive letters of the modelled hosts
DriveLetters == <<"C", "D">>

\* get_disks(): present is the set of drive letters whose root path exists
get_disks(os, present) ==
    IF os = "nt"
    THEN [i \in 1..Len(SelectSeq(DriveLetters, LAMBDA d : d \in present)) |->
            SelectSeq(DriveLetters, LAMBDA d : d \in present)[i] \o ":\\ "]
    ELSE <<"/">>

\* one volume's measurement, as shutil.disk_usage returns it
Snapshot(total, used, free) == [total |-> total, used |-> used, free |-> free]

\* drive C: (and "/") is a volume of 500e9 bytes, drive D: one of 2 GiB; what
\* shutil.disk_usage can return for them:
\* 500e9 / 300e9 / 200e9 bytes
ExampleUsage == Snapshot(Bytes(465, 710051840), Bytes(279, 426031104), Bytes(186, 284020736))
\* 500e9 bytes with 512 MiB left free
NearlyFullUsage == Snapshot(Bytes(465, 710051840), Bytes(465, 173180928), Bytes(0, 512 * MiB))
\* 2 GiB, of which 1.5 GiB used and 512 MiB free
SmallFullUsage == Snapshot(Bytes(2, 0), Bytes(1, 512 * MiB), Bytes(0, 512 * MiB))
\* 2 GiB, of which 1536 bytes used
SmallEmptyUsage == Snapshot(Bytes(2, 0), Bytes(0, 1536), Bytes(1, GiB - 1536))

Usages == {ExampleUsage, NearlyFullUsage, SmallFullUsage, SmallEmptyUsage}

VolumeUsages(drive) ==
    IF SubSeq(drive, 1, 1) = "C" THEN {ExampleUsage, NearlyFullUsage}
    ELSE IF SubSeq(drive, 1, 1) = "D" THEN {SmallFullUsage, SmallEmptyUsage}
    ELSE {ExampleUsage, NearlyFullUsage, SmallEmptyUsage}

\* datetime.now().strftime("%Y-%m-%d %H:%M:%S"), the clock counted in seconds
\* from 2026-11-03 12:00:00
Timestamp(clock) ==
    "2026-11-03 12:00:" \o Digits[((clock % 60) \div 10) + 1] \o Digits[(clock % 10) + 1]

\* the line save_history writes for one drive
DataLine(drive, usage) ==
    drive \o " | Total: " \o format_size(usage.total) \o " | Used: " \o format_size(usage.used)
          \o " | Free: " \o format_size(usage.free) \o "\n"

RECURSIVE DataLines(_)
DataLines(data) ==
    IF data = <<>> THEN ""
    ELSE DataLine(data[1].drive, data[1].usage) \o DataLines(Tail(data))

\* everything one save_history call writes; data is the dict, in insertion order
RecordText(data, clock) ==
    "\n" \o MAGENTA \o Repeat("-", 40) \o "\n"
         \o "Timestamp: " \o Timestamp(clock) \o "\n"
         \o DataLines(data)

\* file.write in append mode, on a file held as its lines
AppendText(lines, text) ==
    IF lines # <<>> /\ CharAt(lines[Len(lines)], Len(lines[Len(lines)])) # "\n"
    THEN SubSeq(lines, 1, Len(lines) - 1) \o SplitLines(lines[Len(lines)] \o text)
    ELSE lines \o SplitLines(text)

save_history_truncating(lines, data, clock) == SplitLines(RecordText(data, clock))

save_history(lines, data, clock) == AppendText(lines, RecordText(data, clock))

\* float(s) on the texts the history file holds: digits, optionally a point and
\* more digits; the value is kept in hundredths (fraction digits past the second
\* are dropped; save_history writes exactly two).  ok = FALSE is ValueError.
Float(s) ==
    LET t  == Strip(s)
        p  == Find(t, ".", 1)
        ip == IF p = 0 THEN t ELSE SubSeq(t, 1, p - 1)
        fp == IF p = 0 THEN "" ELSE SubSeq(t, p + 1, Len(t))
        f2 == SubSeq(fp \o "00", 1, 2)
    IN  IF Len(ip) + Len(fp) > 0 /\ AllDigits(ip) /\ AllDigits(fp)
        THEN [ok |-> TRUE, val |-> StrToInt(ip) * 100 + StrToInt(f2)]
        ELSE [ok |-> FALSE, val |-> 0]

\* float(part.split(':')[1].strip().replace(' GB', '')); ok = FALSE when it raises
FieldValue(part) ==
    IF Len(Split(part, ":")) < 2 THEN [ok |-> FALSE, val |-> 0]
    ELSE Float(Replace(Strip(Split(part, ":")[2]), " GB", ""))

ParseLine_early(line, acc) ==
    IF ~Contains(line, "Total") THEN acc
    ELSE LET parts == Split(Strip(line), "|")
         IN  IF Len(parts) < 3 THEN acc
             ELSE LET drive_name == Strip(Split(parts[1], ":")[1])
                      used_value == FieldValue(parts[2])
                      free_value == FieldValue(parts[3])
                  IN  IF used_value.ok /\ free_value.ok
                      THEN [disks      |-> Append(acc.disks, drive_name),
                            used_sizes |-> Append(acc.used_sizes, used_value.val),
                            free_sizes |-> Append(acc.free_sizes, free_value.val)]
                      ELSE [disks      |-> Append(acc.disks, drive_name),
                            used_sizes |-> acc.used_sizes,
                            free_sizes |-> acc.free_sizes]

\* the body of plot_usage's loop for one line of the file; parts[k] of the
\* source (0-based) is parts[k + 1] here
ParseLine(line, acc) ==
    IF ~Contains(line, "Total") THEN acc
    ELSE LET parts == Split(Strip(line), "|")
         IN  IF Len(parts) < 3 THEN acc
             ELSE LET drive_name == Strip(Split(parts[1], ":")[1])
                      used_value == FieldValue(parts[2])
                      free_value == FieldValue(parts[3])
                  IN  IF used_value.ok /\ free_value.ok
                      THEN [disks      |-> Append(acc.disks, drive_name),
                            used_sizes |-> Append(acc.used_sizes, used_value.val),
                            free_sizes |-> Append(acc.free_sizes, free_value.val)]
                      ELSE acc

\* ------------------------------------------------------------------------
\* The menu controller
\* ------------------------------------------------------------------------
Select(c) == [kind |-> "select", choice |-> c]
Signal(k) == [kind |-> k, choice |-> ""]

Min(S) == CHOOSE x \in S : \A y \in S : x <= y

DriveLetterSet == {DriveLetters[i] : i \in 1..Len(DriveLetters)}

\* what the operator can type at the top menu besides "1" .. "10"
OtherTopChoices == {"0", "11", "01", "x"}
\* what the operator can type at the optimization menu besides "0" .. "9"
OtherSubChoices == {"10", "x"}

\* the variables every dispatch sets afresh
NoCheck == queried' = <<>> /\ enumerated' = <<>>
NoRunAll == failedOps' = {} /\ reports' = <<>>

\* the history file is removed
HistoryGone == history' = <<>> /\ historyExists' = FALSE /\ written' = <<>> /\ nrec' = nrec

Init ==
    /\ osName \in {"nt", "posix"}
    /\ psutil \in BOOLEAN
    /\ HAS_MATPLOTLIB \in BOOLEAN
    /\ winshell \in BOOLEAN
    /\ osName = "posix" => ~winshell
    /\ historyInTemp \in BOOLEAN
    /\ pc = "TopMenu"
    /\ event = Signal("start")
    /\ msg = ""
    /\ ran = <<>>
    /\ history = <<>>
    /\ historyExists = FALSE
    /\ written = <<>>
    /\ nrec = 0
    /\ queried = <<>>
    /\ enumerated = <<>>
    /\ lineNo = 0
    /\ disks = <<>>
    /\ used_sizes = <<>>
    /\ free_sizes = <<>>
    /\ failedOps = {}
    /\ reports = <<>>
    /\ samples = 0
    /\ fmtIn = Bytes(0, 0)
    /\ fmtOut = ""

\* main, choice '1': present holds the drive letters whose root exists (the
\* system drive always does), unavailable the positions of the enumerated
\* drives whose shutil.disk_usage raises; open(filename, 'a') in save_history
\* succeeds or raises
CheckDisks ==
    /\ pc = "TopMenu"
    /\ nrec < MaxRecords
    /\ event' = Select("1")
    /\ \E present \in {S \in SUBSET DriveLetterSet : DriveLetters[1] \in S} :
       LET ds == get_disks(osName, present)
       IN  /\ enumerated' = ds
           /\ \/ \E unavailable \in (SUBSET (1..Len(ds))) \ {{}} :
                    /\ queried' = SubSeq(ds, 1, Min(unavailable))
                    /\ ran' = <<"get_disks">> \o [i \in 1..Min(unavailable) |-> "check_disk"]
                    /\ pc' = "Terminated"
                    /\ msg' = "Traceback (most recent call last): OSError"
                    /\ UNCHANGED fileVars
              \/ /\ queried' = ds
                 /\ ran' = <<"get_disks">> \o [i \in 1..Len(ds) |-> "check_disk"]
                                           \o <<"save_history">>
                 /\ \/ /\ pc' = "Terminated"
                       /\ msg' = "Traceback (most recent call last): PermissionError"
                       /\ UNCHANGED fileVars
                    \/ \E usage \in {u \in [1..Len(ds) -> Usages] :
                                        \A i \in 1..Len(ds) : u[i] \in VolumeUsages(ds[i])} :
                          LET data == [i \in 1..Len(ds) |-> [drive |-> ds[i], usage |-> usage[i]]]
                          IN  /\ history' = save_history(history, data, nrec)
                              /\ historyExists' = TRUE
                              /\ written' = written \o data
                              /\ nrec' = nrec + 1
                              /\ pc' = "TopMenu"
                              /\ msg' = "Data saved to 'disk_usage_history.txt'"
    /\ NoRunAll
    /\ UNCHANGED <<envVars, plotVars, samples, fmtVars>>

\* main, choices '2' and '3': monitor_memory / monitor_cpu up to the first sample
MonitorStart ==
    /\ pc = "TopMenu"
    /\ \E c \in {"2", "3"} :
       /\ event' = Select(c)
       /\ ran' = <<IF c = "2" THEN "monitor_memory" ELSE "monitor_cpu">>
       /\ IF psutil
          THEN /\ pc' = IF c = "2" THEN "MonitorMemory" ELSE "MonitorCpu"
               /\ msg' = ""
          ELSE /\ pc' = "TopMenu"
               /\ msg' = IF c = "2"
                         THEN "psutil is not installed. Memory monitoring is unavailable."
                         ELSE "psutil is not installed, CPU is unavailable."
    /\ samples' = 0
    /\ NoCheck /\ NoRunAll
    /\ UNCHANGED <<envVars, fileVars, plotVars, fmtVars>>

\* one iteration of the "while True" loop of monitor_memory / monitor_cpu
MonitorSample ==
    /\ pc \in {"MonitorMemory", "MonitorCpu"}
    /\ samples < MaxSamples
    /\ samples' = samples + 1
    /\ event' = Signal("sample")
    /\ msg' = IF pc = "MonitorMemory" THEN "Memory:" ELSE "CPU Load:"
    /\ UNCHANGED <<envVars, pc, ran, fileVars, queried, enumerated, plotVars, optVars, fmtVars>>

MonitorInterrupt_uncaught ==
    /\ pc \in {"MonitorMemory", "MonitorCpu"}
    /\ event' = Signal("interrupt")
    /\ pc' = "Terminated"
    /\ msg' = "Traceback (most recent call last): KeyboardInterrupt"
    /\ samples' = 0
    /\ UNCHANGED <<envVars, ran, fileVars, queried, enumerated, plotVars, optVars, fmtVars>>

\* "except KeyboardInterrupt" of monitor_memory / monitor_cpu, and the return to main's loop
MonitorInterrupt ==
    /\ pc \in {"MonitorMemory", "MonitorCpu"}
    /\ event' = Signal("interrupt")
    /\ pc' = "TopMenu"
    /\ msg' = IF pc = "MonitorMemory" THEN "Memory monitoring stopped." ELSE "CPU monitoring stopped."
    /\ samples' = 0
    /\ UNCHANGED <<envVars, ran, fileVars, queried, enumerated, plotVars, optVars, fmtVars>>

\* main, choice '4': plot_usage up to the opening of the file
PlotStart ==
    /\ pc = "TopMenu"
    /\ event' = Select("4")
    /\ ran' = <<"plot_usage">>
    /\ IF ~HAS_MATPLOTLIB
       THEN /\ msg' = "Error: matplotlib is not installed. Install with 'pip install matplotlib'."
            /\ pc' = "TopMenu"
            /\ UNCHANGED plotVars
       ELSE IF ~historyExists
       THEN /\ msg' = "No data to display."
            /\ pc' = "TopMenu"
            /\ UNCHANGED plotVars
       ELSE /\ msg' = ""
            /\ pc' = "PlotUsage"
            /\ lineNo' = 1
            /\ disks' = <<>>
            /\ used_sizes' = <<>>
            /\ free_sizes' = <<>>
    /\ NoCheck /\ NoRunAll
    /\ UNCHANGED <<envVars, fileVars, samples, fmtVars>>

\* plot_usage: one iteration of "for line in f"
PlotLine ==
    /\ pc = "PlotUsage"
    /\ lineNo <= Len(history)
    /\ LET acc == ParseLine(history[lineNo],
                            [disks |-> disks, used_sizes |-> used_sizes, free_sizes |-> free_sizes])
       IN  /\ disks' = acc.disks
           /\ used_sizes' = acc.used_sizes
           /\ free_sizes' = acc.free_sizes
    /\ lineNo' = lineNo + 1
    /\ event' = Signal("line")
    /\ UNCHANGED <<envVars, pc, msg, ran, fileVars, queried, enumerated, optVars, samples, fmtVars>>

\* plot_usage after the loop: the chart, then the return (the locals are gone)
PlotEnd ==
    /\ pc = "PlotUsage"
    /\ lineNo > Len(history)
    /\ msg' = IF disks # <<>> THEN "Disk Usage Overview" ELSE ""
    /\ pc' = "TopMenu"
    /\ lineNo' = 0
    /\ disks' = <<>>
    /\ used_sizes' = <<>>
    /\ free_sizes' = <<>>
    /\ event' = Signal("return")
    /\ UNCHANGED <<envVars, ran, fileVars, queried, enumerated, optVars, samples, fmtVars>>

\* main, choice '5'
ListProcesses ==
    /\ pc = "TopMenu"
    /\ event' = Select("5")
    /\ ran' = <<"list_processes">>
    /\ msg' = IF psutil THEN "System Processes"
              ELSE "psutil is not installed. Unable to get processes."
    /\ NoCheck /\ NoRunAll
    /\ UNCHANGED <<envVars, pc, fileVars, plotVars, samples, fmtVars>>

\* main, choice '6': system_commands with its own prompt (choice); on '3',
\* ok tells whether rmtree and makedirs returned, removed whether
\* shutil.rmtree got to the history file (it can when the file lies in the
\* temp directory, and did if rmtree returned)
SystemCommands ==
    /\ pc = "TopMenu"
    /\ event' = Select("6")
    /\ ran' = <<"system_commands">>
    /\ \/ \E choice \in {"1", "2", "x"} :
             /\ msg' = IF choice \in {"1", "2"} THEN "" ELSE "Invalid choice."
             /\ UNCHANGED fileVars
       \/ \E ok \in BOOLEAN, removed \in {r \in BOOLEAN : historyInTemp /\ historyExists} \cup {FALSE} :
             /\ (ok /\ historyInTemp /\ historyExists) => removed
             /\ msg' = IF ok THEN "Temporary files cleaned." ELSE "Error cleaning:"
             /\ IF removed THEN HistoryGone ELSE UNCHANGED fileVars
    /\ NoCheck /\ NoRunAll
    /\ UNCHANGED <<envVars, pc, plotVars, samples, fmtVars>>

\* main, choice '7': browse_files on a path that is a readable directory, a
\* file (os.listdir raises NotADirectoryError) or missing
BrowseFiles ==
    /\ pc = "TopMenu"
    /\ event' = Select("7")
    /\ ran' = <<"browse_files">>
    /\ \E path \in {"directory", "file", "missing"} :
       /\ msg' = CASE path = "directory" -> "Files and folders in"
                   [] path = "file"      -> "Traceback (most recent call last): NotADirectoryError"
                   [] path = "missing"   -> "Path not found."
       /\ pc' = IF path = "file" THEN "Terminated" ELSE "TopMenu"
    /\ NoCheck /\ NoRunAll
    /\ UNCHANGED <<envVars, fileVars, plotVars, samples, fmtVars>>

WindowsOptimization_anyhost ==
    /\ pc = "TopMenu"
    /\ event' = Select("8")
    /\ ran' = <<"windows_optimization">>
    /\ msg' = "Windows System Optimization"
    /\ pc' = "OptimizationSubmenu"
    /\ NoCheck /\ NoRunAll
    /\ UNCHANGED <<envVars, fileVars, plotVars, samples, fmtVars>>

\* main, choice '8': windows_optimization up to its first prompt
WindowsOptimization ==
    /\ pc = "TopMenu"
    /\ event' = Select("8")
    /\ ran' = <<"windows_optimization">>
    /\ IF osName # "nt"
       THEN /\ msg' = "This feature is only available on Windows systems."
            /\ pc' = "TopMenu"
       ELSE /\ msg' = "Windows System Optimization"
            /\ pc' = "OptimizationSubmenu"
    /\ NoCheck /\ NoRunAll
    /\ UNCHANGED <<envVars, fileVars, plotVars, samples, fmtVars>>

\* main, choice '9': live_monitoring, a loop of ten samples and a chart
LiveMonitoring ==
    /\ pc = "TopMenu"
    /\ event' = Select("9")
    /\ ran' = <<"live_monitoring">>
    /\ msg' = IF psutil /\ HAS_MATPLOTLIB THEN "Starting 10-second monitoring..."
              ELSE "psutil and matplotlib are required."
    /\ NoCheck /\ NoRunAll
    /\ UNCHANGED <<envVars, pc, fileVars, plotVars, samples, fmtVars>>

\* main, choice '10'
Exit ==
    /\ pc = "TopMenu"
    /\ event' = Select("10")
    /\ ran' = <<>>
    /\ msg' = "Exiting..."
    /\ pc' = "Exited"
    /\ NoCheck /\ NoRunAll
    /\ UNCHANGED <<envVars, fileVars, plotVars, samples, fmtVars>>

InvalidTop_numeric ==
    /\ pc = "TopMenu"
    /\ \E c \in OtherTopChoices :
       /\ event' = Select(c)
       /\ IF c = "01"
          THEN /\ ran' = <<"get_disks">>
               /\ msg' = ""
          ELSE /\ ran' = <<>>
               /\ msg' = "Invalid choice. Please try again."
    /\ NoCheck /\ NoRunAll
    /\ UNCHANGED <<envVars, pc, fileVars, plotVars, samples, fmtVars>>

\* main, the final else
InvalidTop ==
    /\ pc = "TopMenu"
    /\ \E c \in OtherTopChoices :
       event' = Select(c)
    /\ ran' = <<>>
    /\ msg' = "Invalid choice. Please try again."
    /\ NoCheck /\ NoRunAll
    /\ UNCHANGED <<envVars, pc, fileVars, plotVars, samples, fmtVars>>

\* input() at either prompt raises KeyboardInterrupt or EOFError; nothing catches it
PromptFailure ==
    /\ pc \in {"TopMenu", "OptimizationSubmenu"}
    /\ \E k \in {"interrupt", "eof"} :
       /\ event' = Signal(k)
       /\ msg' = IF k = "interrupt" THEN "Traceback (most recent call last): KeyboardInterrupt"
                 ELSE "Traceback (most recent call last): EOFError"
    /\ pc' = "Terminated"
    /\ ran' = <<>>
    /\ NoCheck /\ NoRunAll
    /\ UNCHANGED <<envVars, fileVars, plotVars, samples, fmtVars>>

\* ------------------------------------------------------------------------
\* The optimization sub-menu
\* ------------------------------------------------------------------------
MaxFailures == 1    \* sub-actions of one "run all" whose OS operation fails

\* the list "optimizations" of run_all_optimizations; choices '1' .. '7' of
\* windows_optimization call the same functions in the same order
OptTasks == <<"clean_temp_files", "clear_update_cache", "clear_dns_cache", "clear_prefetch",
              "optimize_disks", "clean_recycle_bin", "clear_event_logs">>

OptTaskSet == {OptTasks[i] : i \in 1..Len(OptTasks)}

\* the sub-actions whose OS operation can fail as a whole on this host:
\* clean_temp_files is best effort per file, and clean_recycle_bin attempts
\* nothing without winshell
Attempting(ws) ==
    IF ws THEN OptTaskSet \ {"clean_temp_files"}
    ELSE OptTaskSet \ {"clean_temp_files", "clean_recycle_bin"}

\* what a sub-action prints when its OS operation fails (failed) or not:
\* "ok" a success notice, "error" an error notice, "warning" a warning.
\* os.system returns the command's exit status without raising, and the
\* status is not looked at.
TaskReport(task, failed, ws) ==
    CASE task = "clean_temp_files"   -> "ok"
      [] task = "clear_update_cache" -> IF failed THEN "error" ELSE "ok"
      [] task = "clear_dns_cache"    -> "ok"
      [] task = "clear_prefetch"     -> IF failed THEN "error" ELSE "ok"
      [] task = "optimize_disks"     -> "ok"
      [] task = "clean_recycle_bin"  -> IF ~ws THEN "warning" ELSE IF failed THEN "error" ELSE "ok"
      [] task = "clear_event_logs"   -> "ok"

\* no sub-action lets an exception out: each wraps its OS calls in try/except
TaskRaises(task, failed) == FALSE

\* the loop of run_all_optimizations: the calls made and the status printed for each
RunTasks(tasks, failed, ws) ==
    [calls   |-> tasks,
     reports |-> [i \in 1..Len(tasks) |->
                    IF TaskRaises(tasks[i], tasks[i] \in failed) THEN "error"
                    ELSE TaskReport(tasks[i], tasks[i] \in failed, ws)]]

\* windows_optimization, choice '0': break, and main's loop goes on
SubReturn ==
    /\ pc = "OptimizationSubmenu"
    /\ event' = Select("0")
    /\ ran' = <<>>
    /\ msg' = ""
    /\ pc' = "TopMenu"
    /\ NoCheck /\ NoRunAll
    /\ UNCHANGED <<envVars, fileVars, plotVars, samples, fmtVars>>

\* windows_optimization, choices '1' .. '7': failed tells whether the OS
\* operation of the sub-action fails, removed whether clean_temp_files
\* removed the history file (it tries to when the file lies in a temp
\* directory; a failed os.remove is swallowed)
SubAction ==
    /\ pc = "OptimizationSubmenu"
    /\ \E i \in 1..Len(OptTasks), failed \in BOOLEAN :
       /\ failed => OptTasks[i] \in Attempting(winshell)
       /\ event' = Select(IntToStr(i))
       /\ ran' = <<OptTasks[i]>>
       /\ msg' = TaskReport(OptTasks[i], failed, winshell)
       /\ \E removed \in {r \in BOOLEAN : OptTasks[i] = "clean_temp_files" /\ historyInTemp
                                            /\ historyExists} \cup {FALSE} :
          /\ IF removed THEN HistoryGone ELSE UNCHANGED fileVars
    /\ NoCheck /\ NoRunAll
    /\ UNCHANGED <<envVars, pc, plotVars, samples, fmtVars>>

\* windows_optimization, choice '8': manage_startup_programs; remove is the
\* operator's answer: nothing, a startup item, or a path that os.path.join
\* resolves to the history file
ManageStartup ==
    /\ pc = "OptimizationSubmenu"
    /\ event' = Select("8")
    /\ ran' = <<"manage_startup_programs">>
    /\ \E remove \in {"", "item.lnk", "disk_usage_history.txt"} :
       /\ msg' = IF remove = "" THEN "List of startup programs:"
                 ELSE IF remove = "disk_usage_history.txt" /\ ~historyExists
                 THEN "List of startup programs:"
                 ELSE "Removed " \o remove \o " from startup."
       /\ IF remove = "disk_usage_history.txt" /\ historyExists
          THEN HistoryGone
          ELSE UNCHANGED fileVars
    /\ NoCheck /\ NoRunAll
    /\ UNCHANGED <<envVars, pc, plotVars, samples, fmtVars>>

\* windows_optimization, choice '9': run_all_optimizations
RunAll ==
    /\ pc = "OptimizationSubmenu"
    /\ event' = Select("9")
    /\ \E failed \in SUBSET Attempting(winshell),
          removed \in {r \in BOOLEAN : historyInTemp /\ historyExists} \cup {FALSE} :
       /\ Cardinality(failed) <= MaxFailures
       /\ failedOps' = failed
       /\ ran' = <<"run_all_optimizations">> \o RunTasks(OptTasks, failed, winshell).calls
       /\ reports' = RunTasks(OptTasks, failed, winshell).reports
       /\ IF removed THEN HistoryGone ELSE UNCHANGED fileVars
    /\ msg' = "All optimizations completed!"
    /\ NoCheck
    /\ UNCHANGED <<envVars, pc, plotVars, samples, fmtVars>>

\* windows_optimization, the final else
InvalidSub ==
    /\ pc = "OptimizationSubmenu"
    /\ \E c \in OtherSubChoices :
       event' = Select(c)
    /\ ran' = <<>>
    /\ msg' = "Invalid choice. Please try again."
    /\ NoCheck /\ NoRunAll
    /\ UNCHANGED <<envVars, pc, fileVars, plotVars, samples, fmtVars>>

Next ==
    \/ CheckDisks
    \/ MonitorStart
    \/ MonitorSample
    \/ MonitorInterrupt
    \/ PlotStart
    \/ PlotLine
    \/ PlotEnd
    \/ ListProcesses
    \/ SystemCommands
    \/ BrowseFiles
    \/ WindowsOptimization
    \/ LiveMonitoring
    \/ Exit
    \/ InvalidTop
    \/ PromptFailure
    \/ SubReturn
    \/ SubAction
    \/ ManageStartup
    \/ RunAll
    \/ InvalidSub

Spec == Init /\ [][Next]_vars

\* ------------------------------------------------------------------------
\* format_size on its own
\* ------------------------------------------------------------------------
\* multiples of 1024^3 and remainders around every threshold of format_size
HiSamples == {0, 1, 2, 465, 1023, 1024, 2048}
LoSamples == {0, 1, 1023, 1024, 1025, 1536, MiB - 1, MiB, MiB + 1, 128 * MiB, 512 * MiB, GiB - 1}

FormatInit ==
    /\ osName = "posix"
    /\ psutil = FALSE
    /\ HAS_MATPLOTLIB = FALSE
    /\ winshell = FALSE
    /\ historyInTemp = FALSE
    /\ pc = "TopMenu"
    /\ event = Signal("start")
    /\ msg = ""
    /\ ran = <<>>
    /\ history = <<>>
    /\ historyExists = FALSE
    /\ written = <<>>
    /\ nrec = 0
    /\ queried = <<>>
    /\ enumerated = <<>>
    /\ lineNo = 0
    /\ disks = <<>>
    /\ used_sizes = <<>>
    /\ free_sizes = <<>>
    /\ failedOps = {}
    /\ reports = <<>>
    /\ samples = 0
    /\ fmtIn \in {Bytes(hi, lo) : hi \in HiSamples, lo \in LoSamples}
    /\ fmtOut = ""

FormatCall ==
    /\ fmtOut = ""
    /\ fmtOut' = format_size(fmtIn)
    /\ UNCHANGED <<envVars, pc, event, msg, ran, fileVars, queried, enumerated, plotVars,
                   optVars, samples, fmtIn>>

FormatNext == FormatCall

FormatSpec == FormatInit /\ [][FormatNext]_vars

\* ------------------------------------------------------------------------
\* Properties
\* ------------------------------------------------------------------------
TopChoices == {"1", "2", "3", "4", "5", "6", "7", "8", "9", "10"}
SubChoices == {"1", "2", "3", "4", "5", "6", "7", "8", "9"}
InvalidNotice == "Invalid choice. Please try again."

\* the volume label of a drive as get_disks names it ("C" for "C:\ ", "/" for "/")
VolumeLabel(drive) == Strip(Split(drive, ":")[1])

\* a byte count of at least 1 GB, and its size in GB as format_size writes it, in hundredths
GBMagnitude(b) == AtLeast(b, GiB)
AsWritten(b) == b.hi * 100 + RoundedHundredths(b.lo, GiB)

\* plot_usage has processed every line of the file
ParsedAll == pc = "PlotUsage" /\ lineNo > Len(history)

\* C1: when every snapshot in the file has used and free values of at least
\* 1 GB, parsing the whole file yields, per snapshot and in file order, its
\* volume label, its used size and its free size as written (two decimals).
C1_RoundTrip ==
    (ParsedAll /\ \A i \in 1..Len(written) :
                     GBMagnitude(written[i].usage.used) /\ GBMagnitude(written[i].usage.free))
    => /\ disks = [i \in 1..Len(written) |-> VolumeLabel(written[i].drive)]
       /\ used_sizes = [i \in 1..Len(written) |-> AsWritten(written[i].usage.used)]
       /\ free_sizes = [i \in 1..Len(written) |-> AsWritten(written[i].usage.free)]

\* C2: the controller never terminates because a dispatched action failed;
\* only a failed read of the selection ends the session abnormally.
C2_FailuresCaught == pc = "Terminated" => event.kind \in {"interrupt", "eof"}

\* C3: a "check disks" in which a volume is unavailable still queries every
\* enumerated volume and returns to the top menu (only a failed append of the
\* record can end it otherwise).
C3_PerVolumeFailure ==
    event = Select("1")
    => /\ queried = enumerated
       /\ pc = "Terminated" => msg = "Traceback (most recent call last): PermissionError"

\* C4: at the top menu "10" leads to Exited, from which no step is taken; a
\* selection that is not one of the texts "1" .. "10" leaves the controller
\* at the top menu, runs no action, changes no file and prints the
\* invalid-choice notice.
C4_TopDispatch ==
    [][ /\ pc # "Exited"
        /\ (pc = "TopMenu" /\ event' = Select("10")) => pc' = "Exited"
        /\ (pc = "TopMenu" /\ event'.kind = "select" /\ event'.choice \notin TopChoices)
              => /\ pc' = "TopMenu"
                 /\ ran' = <<>>
                 /\ msg' = InvalidNotice
                 /\ UNCHANGED fileVars
      ]_vars

C4_Witness == pc = "TopMenu" /\ event = Select("01") /\ msg = InvalidNotice /\ ran = <<>>

\* what C5 says of the optimization sub-menu itself
SubmenuSteps ==
    /\ (pc = "OptimizationSubmenu" /\ event'.kind = "select" /\ event'.choice \in SubChoices)
          => /\ pc' = "OptimizationSubmenu"
             /\ ran' # <<>>
             /\ ran'[1] = (OptTasks \o <<"manage_startup_programs", "run_all_optimizations">>)
                              [StrToInt(event'.choice)]
    /\ (pc = "OptimizationSubmenu" /\ event' = Select("0")) => pc' = "TopMenu"
    /\ (pc = "OptimizationSubmenu" /\ event'.kind = "select"
           /\ event'.choice \notin SubChoices \cup {"0"})
          => pc' = "OptimizationSubmenu" /\ msg' = InvalidNotice /\ ran' = <<>>
    /\ (pc # "Exited" /\ pc' = "Exited") => pc = "TopMenu"

\* C5 as stated: selection 8 at the top menu always opens the optimization
\* sub-menu; in it 1..9 run their sub-action and stay, 0 returns to the top
\* menu, anything else stays with the invalid-choice notice; Exited is entered
\* from the top menu only.
C5_AsStated ==
    [][ /\ (pc = "TopMenu" /\ event' = Select("8")) => pc' = "OptimizationSubmenu"
        /\ SubmenuSteps
      ]_vars

\* C5, amended: selection 8 at the top menu opens the optimization sub-menu
\* on a Windows host (os.name = "nt"); on any other host it prints that the
\* feature is only available on Windows and stays at the top menu.  The
\* sub-menu behaves as stated.
C5_Submenu ==
    [][ /\ (pc = "TopMenu" /\ event' = Select("8"))
              => IF osName = "nt"
                 THEN pc' = "OptimizationSubmenu"
                 ELSE /\ pc' = "TopMenu"
                      /\ msg' = "This feature is only available on Windows systems."
        /\ SubmenuSteps
      ]_vars

C5_Witness ==
    /\ osName = "nt"
    /\ pc = "OptimizationSubmenu"
    /\ event = Select("9")
    /\ ran[1] = "run_all_optimizations"

\* C6: "run all" calls its seven sub-actions once each in the declared
\* order, whatever fails, and the status printed for a sub-action is a
\* failure exactly when that sub-action failed (so the failures reported are
\* as many as the sub-actions that failed).
C6_RunAllReport ==
    (pc = "OptimizationSubmenu" /\ event = Select("9"))
    => /\ ran = <<"run_all_optimizations">> \o OptTasks
       /\ Len(reports) = Len(OptTasks)
       /\ \A i \in 1..Len(OptTasks) : (reports[i] = "error") <=> (OptTasks[i] \in failedOps)

\* the unit suffix of a formatted size
Unit(text) == Split(text, " ")[2]

\* C7 as stated: the unit chosen for b is the one in which 1 <= b / scale < 1024,
\* Bytes when b < 1024.
C7_AsStated ==
    fmtOut # ""
    => IF Below(fmtIn, KiB) THEN Unit(fmtOut) = "Bytes"
       ELSE \/ Unit(fmtOut) = "KB" /\ AtLeast(fmtIn, KiB) /\ Below(fmtIn, MiB)
            \/ Unit(fmtOut) = "MB" /\ AtLeast(fmtIn, MiB) /\ Below(fmtIn, GiB)
            \/ Unit(fmtOut) = "GB" /\ AtLeast(fmtIn, GiB) /\ fmtIn.hi < 1024

\* C7, amended: the unit chosen for b is Bytes when b < 1024, KB when
\* 1024 <= b < 1024^2, MB when 1024^2 <= b < 1024^3 and GB for every
\* b >= 1024^3: GB is the largest unit, so the magnitude is below 1024 only
\* while b < 1024^4.  1024 is rendered "1.00 KB" and 1024^3 "1.00 GB".
C7_UnitSelection ==
    fmtOut # ""
    => /\ IF Below(fmtIn, KiB) THEN Unit(fmtOut) = "Bytes"
          ELSE \/ Unit(fmtOut) = "KB" /\ AtLeast(fmtIn, KiB) /\ Below(fmtIn, MiB)
               \/ Unit(fmtOut) = "MB" /\ AtLeast(fmtIn, MiB) /\ Below(fmtIn, GiB)
               \/ Unit(fmtOut) = "GB" /\ AtLeast(fmtIn, GiB)
       /\ fmtIn = Bytes(0, 1024) => fmtOut = "1.00 KB"
       /\ fmtIn = Bytes(1, 0) => fmtOut = "1.00 GB"

C7_Witness == fmtIn = Bytes(1024, 0) /\ fmtOut = "1024.00 GB"

\* C8: the data lines that yield a tuple are exactly those whose used and
\* free fields are both written in GB; every other data line is skipped, and
\* the labels come out in file order.
C8_SkipsNonGB ==
    ParsedAll
    => disks = [i \in 1..Len(SelectSeq(written,
                       LAMBDA w : GBMagnitude(w.usage.used) /\ GBMagnitude(w.usage.free))) |->
                  VolumeLabel(SelectSeq(written,
                       LAMBDA w : GBMagnitude(w.usage.used) /\ GBMagnitude(w.usage.free))[i].drive)]

Monitors == {"MonitorMemory", "MonitorCpu"}

\* C9: with the metrics provider present, selections 2 and 3 start the
\* memory and the CPU monitor; a running monitor only samples (no action is
\* dispatched, nothing else changes) until the interrupt arrives, and the
\* interrupt puts the controller back at the top menu with the stopped notice.
C9_Monitors ==
    [][ /\ (pc = "TopMenu" /\ psutil /\ event' = Select("2")) => pc' = "MonitorMemory"
        /\ (pc = "TopMenu" /\ psutil /\ event' = Select("3")) => pc' = "MonitorCpu"
        /\ pc' \in Monitors => psutil
        /\ pc \in Monitors
              => \/ /\ pc' = pc
                    /\ event' = Signal("sample")
                    /\ UNCHANGED <<ran, fileVars, plotVars, optVars>>
                 \/ /\ event' = Signal("interrupt")
                    /\ pc' = "TopMenu"
                    /\ msg' = IF pc = "MonitorMemory" THEN "Memory monitoring stopped."
                              ELSE "CPU monitoring stopped."
                    /\ UNCHANGED <<ran, fileVars>>
      ]_vars

C9_Witness ==
    /\ pc = "TopMenu"
    /\ event = Signal("interrupt")
    /\ msg = "CPU monitoring stopped."
    /\ ran = <<"monitor_cpu">>

\* the step is a completed "check disks"
CheckCompleted == pc = "TopMenu" /\ event' = Select("1") /\ pc' = "TopMenu"

\* the file after the step is the file before it followed by one record
\* block: a blank line, the separator, the timestamp, one data line per
\* queried volume
BlockAppended ==
    /\ historyExists'
    /\ Len(history') = Len(history) + 3 + Len(queried')
    /\ SubSeq(history', 1, Len(history)) = history
    /\ history'[Len(history) + 1] = "\n"
    /\ Contains(history'[Len(history) + 2], Repeat("-", 40))
    /\ SubSeq(history'[Len(history) + 3], 1, 11) = "Timestamp: "
    /\ \A i \in 1..Len(queried') :
          /\ SubSeq(history'[Len(history) + 3 + i], 1, Len(queried'[i])) = queried'[i]
          /\ Contains(history'[Len(history) + 3 + i], "Total")

MayRemoveHistory ==
    \/ historyInTemp /\ pc = "TopMenu" /\ event' = Select("6")
    \/ historyInTemp /\ pc = "OptimizationSubmenu" /\ event' \in {Select("1"), Select("9")}
    \/ pc = "OptimizationSubmenu" /\ event' = Select("8")

MaxLines == 3       \* lines of the history file under ParseSpec

\* lines a history file can hold: a well-formed data line, data lines whose
\* second or first numeric field is not in GB, a line with "Total" and fewer
\* than three fields, a data line whose field has no ':', a timestamp line
SampleLines ==
    { "C:\\  | Total: 465.66 GB | Used: 279.40 GB | Free: 186.26 GB\n",
      "D:\\  | Total: 2.00 GB | Used: 1.50 KB | Free: 2.00 GB\n",
      "E:\\  | Total: 512.00 MB | Used: 1.00 GB | Free: 1.00 GB\n",
      "Total: 5\n",
      "F:\\  | Total | Used: 1.00 GB | Free: 1.00 GB\n",
      "Timestamp: 2026-11-03 12:00:00\n" }

ParseInit ==
    /\ osName \in {"nt", "posix"}
    /\ psutil = FALSE
    /\ HAS_MATPLOTLIB = TRUE
    /\ winshell = FALSE
    /\ historyInTemp = FALSE
    /\ pc = "TopMenu"
    /\ event = Signal("start")
    /\ msg = ""
    /\ ran = <<>>
    /\ history \in UNION {[1..n -> SampleLines] : n \in 0..MaxLines}
    /\ historyExists = TRUE
    /\ written = <<>>
    /\ nrec = 0
    /\ queried = <<>>
    /\ enumerated = <<>>
    /\ lineNo = 0
    /\ disks = <<>>
    /\ used_sizes = <<>>
    /\ free_sizes = <<>>
    /\ failedOps = {}
    /\ reports = <<>>
    /\ samples = 0
    /\ fmtIn = Bytes(0, 0)
    /\ fmtOut = ""

ParseNext ==
    \/ PlotStart
    \/ PlotLine
    \/ PlotEnd

ParseSpec == ParseInit /\ [][ParseNext]_vars

\* the line plot_usage is about to process contributes nothing: it is not a
\* data line, has fewer than three '|'-separated fields, or one of the two
\* numeric fields the parser reads does not parse
Skipped(line) ==
    \/ ~Contains(line, "Total")
    \/ Len(Split(Strip(line), "|")) < 3
    \/ ~FieldValue(Split(Strip(line), "|")[2]).ok
    \/ ~FieldValue(Split(Strip(line), "|")[3]).ok

\* C11: while plot_usage parses, the three result sequences have the same
\* length after every line processed; a line either adds one entry to each
\* of the three (keeping the earlier entries) or, when it is skipped, leaves
\* all three as they were.
C11_EqualLengths ==
    [][ (pc = "PlotUsage" /\ pc' = "PlotUsage")
           => /\ Len(disks') = Len(used_sizes')
              /\ Len(used_sizes') = Len(free_sizes')
              /\ IF Skipped(history[lineNo])
                 THEN UNCHANGED <<disks, used_sizes, free_sizes>>
                 ELSE /\ Len(disks') = Len(disks) + 1
                      /\ SubSeq(disks', 1, Len(disks)) = disks
                      /\ SubSeq(used_sizes', 1, Len(used_sizes)) = used_sizes
                      /\ SubSeq(free_sizes', 1, Len(free_sizes)) = free_sizes
      ]_vars

C11_Witness ==
    /\ ParsedAll
    /\ Len(history) = 3
    /\ ~Skipped(history[1])
    /\ Contains(history[2], "Total") /\ Skipped(history[2])
    /\ ~Skipped(history[3])
    /\ Len(disks) = 2

====
